---- MODULE Spec2Model ----
(***************************************************************************)
(* Model of src/360_spin.py: the sequential multi-angle generation run     *)
(* (generate_multi_angle_images_from_upload and generate_angle_image), the *)
(* viewer assembly (create_360_viewer_html), the generate button handler   *)
(* and the clean-up button handler.                                        *)
(*                                                                         *)
(* A behaviour is one Streamlit session working on a local storage that    *)
(* may already hold the files earlier generation runs left behind: one     *)
(* click on the generate button, the jobs of that run one after the other, *)
(* the rendering of its results, and any number of clean-up clicks.        *)
(* The reading of one response stream (lines 129-143) and the script of    *)
(* the generated viewer document (lines 478-544) are also modelled step by *)
(* step, each in a specification of its own.                               *)
(*                                                                         *)
(* Text is modelled as a sequence of word tokens, bytes as sequences of    *)
(* numbers 0..255, base64 text as sequences of 6-bit digits and padding.   *)
(***************************************************************************)
EXTENDS Integers, Sequences, FiniteSets, TLC

VARIABLES
    api_key_set,       \* os.getenv("GEMINI_API_KEY") is non-empty
    client_cached,     \* st.cache_resource holds a client for get_genai_client
    files,             \* local storage: file name -> content
    pc,                \* position of the script run
    num_angles,        \* the selectbox value of the run
    prompt_strategy,   \* the strategy selectbox value of the run
    uploaded_file,     \* the main upload of the run
    back_garment_file, \* the optional back reference upload (None when absent)
    back_garment_bytes,\* its JPEG bytes inside the run (None when absent)
    i,                 \* loop index of the run
    request,           \* the request of the job being (or last) generated
    calls,             \* the external calls issued so far in the run
    in_flight,         \* number of external calls that have not returned yet
    since_call_end,    \* seconds slept since the last external call ended
    received,          \* the inline image each call of the run returned, if any
    alt_used,          \* responses of the run that were not the default image
    generated_images,  \* the result list of the run
    messages,          \* the log of the run
    ui,                \* what the handler rendered after the run
    reader,            \* generate_angle_image reading one response stream
    images_length,     \* viewer script: images.length (0: no document loaded)
    currentIndex,      \* viewer script: let currentIndex
    isPlaying,         \* viewer script: let isPlaying
    playInterval,      \* viewer script: let playInterval (0: undefined)
    timers,            \* viewer document: ids of the intervals that are set
    mainImage,         \* viewer document: index of the image in mainImage.src
    angleSlider        \* viewer document: angleSlider.value

\* the variables of the viewer document
viewer_vars == <<images_length, currentIndex, isPlaying, playInterval, timers, mainImage,
                 angleSlider>>

\* the variables of the session
session_vars == <<api_key_set, client_cached, files, pc, num_angles, prompt_strategy,
                  uploaded_file, back_garment_file, back_garment_bytes, i, request, calls,
                  in_flight, since_call_end, received, alt_used, generated_images, messages,
                  ui>>

vars == <<session_vars, reader, viewer_vars>>

\* Python's None, where the other values are records or sequences
None == [none |-> TRUE]

\* At most this many calls of a run answer with one of AltStreams.
MaxAlt == 1

----------------------------------------------------------------------------
(* Small helpers *)

Min(a, b) == IF a < b THEN a ELSE b

\* needle occurs in hay as a contiguous run of tokens (Python's `in` on text)
Contains(hay, needle) ==
    \E k \in 0..(Len(hay) - Len(needle)) :
        \A j \in 1..Len(needle) : hay[k + j] = needle[j]

\* str.lower() on the tokens the prompts are made of
Lower(t) ==
    CASE t = "BACK" -> "back"
      [] t = "VIEW" -> "view"
      [] t = "BACKGROUND" -> "background"
      [] t = "ANGLE" -> "angle"
      [] t = "GARMENT" -> "garment"
      [] t = "REFERENCE" -> "reference"
      [] t = "IMAGE" -> "image"
      [] t = "PRIMARY" -> "primary"
      [] t = "GENERATION" -> "generation"
      [] t = "WITH" -> "with"
      [] t = "CRITICAL" -> "critical"
      [] t = "TECHNICAL" -> "technical"
      [] t = "SPECIFICATIONS" -> "specifications"
      [] t = "MEASUREMENT" -> "measurement"
      [] t = "CONSISTENCY" -> "consistency"
      [] t = "VIRTUAL" -> "virtual"
      [] t = "TRY-ON" -> "try-on"
      [] t = "POSE" -> "pose"
      [] t = "Show" -> "show"
      [] t = "Create" -> "create"
      [] t = "Use" -> "use"
      [] t = "IDENTICAL" -> "identical"
      [] t = "REQUIREMENTS" -> "requirements"
      [] t = "FOR" -> "for"
      [] t = "Studio" -> "studio"
      [] t = "Maintain" -> "maintain"
      [] t = "Neutral" -> "neutral"
      [] t = "This" -> "this"
      [] t = "Combine" -> "combine"
      [] OTHER -> t

LowerText(text) == [k \in DOMAIN text |-> Lower(text[k])]

----------------------------------------------------------------------------
(* base64, as base64.b64encode / b64decode compute it *)

Pad == 64

RECURSIVE b64encode(_)
b64encode(bs) ==
    IF Len(bs) = 0 THEN << >>
    ELSE IF Len(bs) = 1 THEN
        << bs[1] \div 4, (bs[1] % 4) * 16, Pad, Pad >>
    ELSE IF Len(bs) = 2 THEN
        << bs[1] \div 4, (bs[1] % 4) * 16 + (bs[2] \div 16), (bs[2] % 16) * 4, Pad >>
    ELSE
        << bs[1] \div 4, (bs[1] % 4) * 16 + (bs[2] \div 16),
           (bs[2] % 16) * 4 + (bs[3] \div 64), bs[3] % 64 >>
        \o b64encode(SubSeq(bs, 4, Len(bs)))

RECURSIVE b64decode(_)
b64decode(ds) ==
    IF Len(ds) < 4 THEN << >>
    ELSE
        LET b1 == ds[1] * 4 + (ds[2] \div 16)
            b2 == (ds[2] % 16) * 16 + (ds[3] \div 4)
            b3 == (ds[3] % 4) * 64 + ds[4]
        IN  IF ds[3] = Pad THEN << b1 >>
            ELSE IF ds[4] = Pad THEN << b1, b2 >>
            ELSE << b1, b2, b3 >> \o b64decode(SubSeq(ds, 5, Len(ds)))

\* encode_image_to_base64 on bytes
encode_image_to_base64(image_data) == b64encode(image_data)

----------------------------------------------------------------------------
(* The angle set and the prompts of generate_multi_angle_images_from_upload *)

AngleCounts == {4, 6, 8}

Strategies == {"comprehensive", "detailed", "measurement_focused", "technical", "basic"}

\* the angle step of eight angles used for every angle count
angles_fixed_step(n) == [k \in 1..n |-> (k - 1) * 45]

\* angles = [i * (360 / num_angles) for i in range(num_angles)], in degrees;
\* 360 / n is a whole number of degrees for every n the selectbox offers.
angles(n) == [k \in 1..n |-> (k - 1) * (360 \div n)]

angle_descriptions ==
    << << "front", "view" >>,
       << "front-right", "diagonal", "view" >>,
       << "right", "side", "view" >>,
       << "back-right", "diagonal", "view" >>,
       << "back", "view" >>,
       << "back-left", "diagonal", "view" >>,
       << "left", "side", "view" >>,
       << "front-left", "diagonal", "view" >> >>

\* enumerate(zip(angles, angle_descriptions)): zip stops at the shorter list
jobs(n) ==
    [k \in 1..Min(n, Len(angle_descriptions)) |->
        [index |-> k - 1, angle |-> angles(n)[k], description |-> angle_descriptions[k]]]

\* "back view" in description
IsBackView(description) == Contains(description, << "back", "view" >>)

\* f"{angle}" of a float holding a whole number
AngleText(angle) == ToString(angle) \o ".0"

\* The five prompt templates, shortened to their opening words and to every
\* place that holds the description, the angle, or a word with "back" or
\* "view" in it.
basic(desc, angle) ==
    << "Show", "the", "same", "child", "from" >> \o desc
    \o << ".", "Maintain", "identical", "proportions", ".", AngleText(angle), "rotation", "." >>

detailed(desc, angle) ==
    << "Create" >> \o desc
    \o << "of", "the", "same", "child", ":", "IDENTICAL", "background", "and",
          "studio", "setup", AngleText(angle), "perspective", "rotation", "only" >>

comprehensive(desc, angle) ==
    << "VIRTUAL", "TRY-ON", "CONSISTENCY", "REQUIREMENTS", ":", "POSE", ":",
       "appropriate", "for" >> \o desc
    \o << ",", "BACKGROUND", ":", "studio", "background", ",", "ANGLE", ":", "Show" >> \o desc
    \o << "perspective", "(", AngleText(angle), "rotation", ")", "virtual", "try-on", "system" >>

measurement_focused(desc, angle) ==
    << "MEASUREMENT", "CONSISTENCY", "FOR", "VIRTUAL", "TRY-ON", ":", "Show" >> \o desc
    \o << "(", AngleText(angle), "rotation", ")", "Studio", "photography", ",",
          "clean", "background", "." >>

technical(desc, angle) ==
    << "TECHNICAL", "SPECIFICATIONS", "for" >> \o desc
    \o << ":", AngleText(angle), "rotation", ",", "BACKGROUND", ":", "Neutral",
          "backdrop", ",", "virtual", "try-on", "system" >>

\* prompt_strategies.get(prompt_strategy, prompt_strategies["comprehensive"])
selected_strategy(strategy, desc, angle) ==
    CASE strategy = "basic" -> basic(desc, angle)
      [] strategy = "detailed" -> detailed(desc, angle)
      [] strategy = "measurement_focused" -> measurement_focused(desc, angle)
      [] strategy = "technical" -> technical(desc, angle)
      [] OTHER -> comprehensive(desc, angle)

\* the reference instruction appended for every angle after the first
ReferenceNote(idx) ==
    << "REFERENCE", ":", "Use", "the", "original", "image", ".", "This", "is",
       "angle", ToString(idx + 1), "of", "a", "360", "product", "view", "sequence", "." >>

\* the prompt of job idx, lines 261-265
angle_prompt(strategy, job) ==
    selected_strategy(strategy, job.description, job.angle)
    \o (IF job.index > 0 THEN ReferenceNote(job.index) ELSE << >>)

\* the dual-image composition directive put in front of a back view prompt
DualImageDirective ==
    << "BACK", "VIEW", "GENERATION", "WITH", "GARMENT", "REFERENCE", ":",
       "PRIMARY", "IMAGE", ":", "child", "face", "and", "proportions",
       "GARMENT", "REFERENCE", "IMAGE", ":", "exact", "back", "design",
       "CRITICAL", ":", "Combine", "primary", "image", "with", "reference", "." >>

\* types.Part.from_bytes(mime_type="image/jpeg", data=base64.b64decode(b64))
ImagePart(b64) == [mime_type |-> "image/jpeg", data |-> b64decode(b64)]

\* the back view test made on the prompt as written, against capitalised words
BuildRequest_case_sensitive(image_data, prompt, back_garment_image) ==
    LET base64_image == encode_image_to_base64(image_data)
        with_back == back_garment_image # None
                     /\ Contains(prompt, << "Back", "View" >>)
    IN  [images |-> << ImagePart(base64_image) >>
                    \o (IF with_back
                        THEN << ImagePart(encode_image_to_base64(back_garment_image)) >>
                        ELSE << >>),
         text |-> IF with_back THEN DualImageDirective \o prompt ELSE prompt]

\* generate_angle_image, lines 61-116: the request built from its arguments
BuildRequest(image_data, prompt, back_garment_image) ==
    LET base64_image == encode_image_to_base64(image_data)
        with_back == back_garment_image # None
                     /\ Contains(LowerText(prompt), << "back", "view" >>)
    IN  [images |-> << ImagePart(base64_image) >>
                    \o (IF with_back
                        THEN << ImagePart(encode_image_to_base64(back_garment_image)) >>
                        ELSE << >>),
         text |-> IF with_back THEN DualImageDirective \o prompt ELSE prompt]

\* garment_ref = back_garment_bytes if "back view" in description else None
garment_ref(job, back_bytes) == IF IsBackView(job.description) THEN back_bytes ELSE None

----------------------------------------------------------------------------
(* File names, local storage and the clean-up *)

\* the decimal digits of n, zero-padded to at least width digits ({n:02d}, {x:03.0f})
RECURSIVE Digits(_, _)
Digits(n, width) ==
    IF n < 10 /\ width <= 1 THEN << n >>
    ELSE Digits(n \div 10, width - 1) \o << n % 10 >>

\* a file name suffix that is not keyed by the job
suffix_not_keyed(idx, angle) == << Digits(0, 2), Digits(0, 3) >>

\* f"{i:02d}_{angle:03.0f}deg"
suffix(idx, angle) == << Digits(idx, 2), Digits(angle, 3) >>

\* mimetypes.guess_extension for the image types of the model's responses
guess_extension(mime_type) ==
    CASE mime_type = "image/png" -> ".png"
      [] mime_type = "image/jpeg" -> ".jpg"
      [] mime_type = "image/webp" -> ".webp"
      [] OTHER -> ""

\* lines 134-137: file_path = f"angle_{suffix}{ext}", ext = guess_extension(...) or '.png'
angle_file_path(sfx, mime_type) ==
    [prefix |-> "angle_", suffix |-> sfx,
     ext |-> IF guess_extension(mime_type) # "" THEN guess_extension(mime_type) ELSE ".png"]

html_file == [prefix |-> "360_viewer", suffix |-> << >>, ext |-> ".html"]

\* os.path.exists
exists(fs, path) == path \in DOMAIN fs

\* save_binary_file / open(..., 'w').write
write(fs, path, data) ==
    [f \in DOMAIN fs \cup {path} |-> IF f = path THEN data ELSE fs[f]]

\* glob.glob("angle_*.png") + glob.glob("angle_*.jpg") + glob.glob("360_viewer.html")
files_to_remove(fs) ==
    {f \in DOMAIN fs : f.prefix = "angle_" /\ f.ext = ".png"}
    \cup {f \in DOMAIN fs : f.prefix = "angle_" /\ f.ext = ".jpg"}
    \cup {f \in DOMAIN fs : f = html_file}

\* the removal loop of the clean-up handler, lines 782-787
remove_all(fs, names) == [f \in DOMAIN fs \ names |-> fs[f]]

EmptyStorage == [f \in {} |-> << >>]

----------------------------------------------------------------------------
(* The response stream of the external model *)

\* image bytes the model may return
ImageA == << 137, 80, 78 >>
ImageB == << 255, 216 >>

\* bytes of the uploads after their JPEG re-encoding (lines 160-173)
MainJpeg == << 255, 216, 1, 7 >>
BackJpeg == << 255, 216, 2 >>

TextPart == [inline_data |-> None]
InlinePart(mime_type, data) == [inline_data |-> [mime_type |-> mime_type, data |-> data]]

\* A stream is the chunks it yields (each a list of parts) and whether it
\* raises once they are consumed.
DefaultStreams ==
    { [chunks |-> << << TextPart >>, << InlinePart("image/png", ImageA) >> >>, raises |-> FALSE] }

AltStreams ==
    { [chunks |-> << << InlinePart("image/jpeg", ImageB) >> >>, raises |-> FALSE],
      [chunks |-> << << >>, << TextPart, InlinePart("image/webp", ImageB) >>,
                     << InlinePart("image/png", ImageA) >> >>, raises |-> FALSE],
      [chunks |-> << << InlinePart("image/x-unknown", ImageB) >> >>, raises |-> TRUE] }

EmptyStreams ==
    { [chunks |-> << >>, raises |-> FALSE],
      [chunks |-> << << TextPart >>, << >> >>, raises |-> FALSE] }

RaisingStreams ==
    { [chunks |-> << >>, raises |-> TRUE],
      [chunks |-> << << TextPart >> >>, raises |-> TRUE] }

\* the parts of a stream in the order the two loops of lines 130-132 visit them
RECURSIVE Flatten(_)
Flatten(chunks) ==
    IF chunks = << >> THEN << >> ELSE Head(chunks) \o Flatten(Tail(chunks))

\* the first part with inline data, None when the stream has none (lines 130-140)
FirstInline(stream) ==
    LET parts == Flatten(stream.chunks)
        hits == {k \in DOMAIN parts : parts[k].inline_data # None}
    IN  IF hits = {} THEN None
        ELSE parts[CHOOSE k \in hits : \A j \in hits : k <= j].inline_data

\* generate_angle_image, lines 129-143: the file it returns (None when the
\* stream has no inline data or raises first) and the storage afterwards
SaveResponse(fs, sfx, stream) ==
    LET inline_data == FirstInline(stream)
    IN  IF inline_data = None
        THEN [file_path |-> None, files |-> fs]
        ELSE LET file_path == angle_file_path(sfx, inline_data.mime_type)
             IN  [file_path |-> file_path, files |-> write(fs, file_path, inline_data.data)]

----------------------------------------------------------------------------
(* One job of the run, and the viewer *)

\* Image.open identifies the bytes as an image; it raises on anything else
Garbled == << 0 >>
image_opens(data) == data # Garbled

SleepSeconds == 2

\* the loop body leaving the log alone when a job produced no file
AfterJob_silent_failure(fs, images, msgs, job, file_path, back_file) ==
    IF file_path # None /\ exists(fs, file_path) /\ image_opens(fs[file_path])
    THEN [images |-> Append(images, [path |-> file_path, angle |-> job.angle,
                                     description |-> job.description]),
          messages |-> Append(msgs, [angle_no |-> job.index + 1,
                                     text |-> "Generated successfully"])]
    ELSE [images |-> images, messages |-> msgs]

\* the loop body putting each new result in front of the list
AfterJob_insert_front(fs, images, msgs, job, file_path, back_file) ==
    IF file_path # None /\ exists(fs, file_path) /\ image_opens(fs[file_path])
    THEN [images |-> << [path |-> file_path, angle |-> job.angle,
                         description |-> job.description] >> \o images,
          messages |-> Append(msgs, [angle_no |-> job.index + 1,
                                     text |-> "Generated successfully"])]
    ELSE [images |-> images,
          messages |-> Append(msgs, [angle_no |-> job.index + 1, text |-> "Failed to generate"])]

\* lines 279-304: what the loop body does with the file generate_angle_image
\* returned: a result and a success message, a failure message when there is
\* no file, the except branch when the file cannot be opened as an image
AfterJob(fs, images, msgs, job, file_path, back_file) ==
    IF file_path # None /\ exists(fs, file_path)
    THEN IF image_opens(fs[file_path])
         THEN [images |-> Append(images, [path |-> file_path, angle |-> job.angle,
                                          description |-> job.description]),
               messages |-> Append(msgs,
                   [angle_no |-> job.index + 1,
                    text |-> IF IsBackView(job.description) /\ back_file # "none"
                             THEN "Generated successfully with garment reference"
                             ELSE "Generated successfully"])]
         ELSE [images |-> images,
               messages |-> Append(msgs, [angle_no |-> job.index + 1, text |-> "failed"])]
    ELSE [images |-> images,
          messages |-> Append(msgs, [angle_no |-> job.index + 1, text |-> "Failed to generate"])]

\* the delay taken only in the success branch
delay_after_success_only(file_path) == IF file_path = None THEN 0 ELSE SleepSeconds

\* the delay at the end of the loop body, line 307: the seconds slept after
\* the call of a job, whether or not the job produced a file
delay_after(file_path) == SleepSeconds

\* a failed job ending the loop
after_iteration_abort_on_failure(idx, n_jobs, file_path) ==
    IF file_path # None /\ idx + 1 < n_jobs THEN "loop" ELSE "returned"

\* a loop that never reaches its end
after_iteration_never_returns(idx, n_jobs, file_path) == "loop"

\* the for loop of line 249 around the try of lines 267-304: where the run
\* goes after the job at idx, whatever file the job returned
after_iteration(idx, n_jobs, file_path) == IF idx + 1 < n_jobs THEN "loop" ELSE "returned"

\* lines 329-331: the MIME type the viewer declares for a path
viewer_mime_type(path) == IF path.ext \in {".jpg", ".jpeg"} THEN "image/jpeg" ELSE "image/png"

\* create_360_viewer_html: None, or the document with its embedded images
create_360_viewer_html(images, fs) ==
    IF images = << >> THEN None
    ELSE LET present(img) == exists(fs, img.path)
             kept == SelectSeq(images, present)
             image_data == [k \in DOMAIN kept |->
                 [data |-> [mime_type |-> viewer_mime_type(kept[k].path),
                            base64 |-> b64encode(fs[kept[k].path])],
                  angle |-> kept[k].angle,
                  description |-> kept[k].description]]
         IN  IF image_data = << >> THEN None ELSE [images |-> image_data]

\* nothing rendered
NoUi == [notice |-> "none", count |-> 0, log |-> << >>, viewer |-> None,
         zip |-> << >>, downloads |-> FALSE, removed_count |-> 0]

\* the handler zipping every angle file found in storage
Render_zip_storage(images, msgs, fs) ==
    IF images # << >>
    THEN LET viewer_html == create_360_viewer_html(images, fs)
             found == {f \in DOMAIN fs : f.prefix = "angle_"}
             RECURSIVE listing(_)
             listing(names) ==
                 IF names = {} THEN << >>
                 ELSE LET f == CHOOSE x \in names : TRUE
                      IN  << [name |-> f, data |-> fs[f]] >> \o listing(names \ {f})
         IN  [ui |-> [notice |-> "success", count |-> Len(images), log |-> msgs,
                      viewer |-> viewer_html,
                      zip |-> IF viewer_html # None THEN listing(found) ELSE << >>,
                      downloads |-> viewer_html # None,
                      removed_count |-> 0],
              files |-> IF viewer_html # None THEN write(fs, html_file, viewer_html) ELSE fs]
    ELSE [ui |-> [NoUi EXCEPT !.notice = "failure"], files |-> fs]

\* the handler rendering the results without testing the list
Render_untested(images, msgs, fs) ==
    LET viewer_html == create_360_viewer_html(images, fs)
    IN  [ui |-> [notice |-> "success", count |-> Len(images), log |-> msgs,
                 viewer |-> viewer_html, zip |-> << >>,
                 downloads |-> viewer_html # None, removed_count |-> 0],
         files |-> IF viewer_html # None THEN write(fs, html_file, viewer_html) ELSE fs]

\* the generate button handler after the run returned, lines 673-775
Render(images, msgs, fs) ==
    IF images # << >>
    THEN LET viewer_html == create_360_viewer_html(images, fs)
             present(img) == exists(fs, img.path)
             zipped == SelectSeq(images, present)
         IN  [ui |-> [notice |-> "success", count |-> Len(images), log |-> msgs,
                      viewer |-> viewer_html,
                      zip |-> IF viewer_html # None
                              THEN [k \in DOMAIN zipped |->
                                       [name |-> zipped[k].path, data |-> fs[zipped[k].path]]]
                              ELSE << >>,
                      downloads |-> viewer_html # None,
                      removed_count |-> 0],
              files |-> IF viewer_html # None THEN write(fs, html_file, viewer_html) ELSE fs]
    ELSE [ui |-> [NoUi EXCEPT !.notice = "failure"], files |-> fs]

----------------------------------------------------------------------------
(* Storage found when the session starts: empty, or what an earlier run of  *)
(* this program left, computed with the operators above                     *)

RECURSIVE EarlierLoop(_, _, _, _)
EarlierLoop(fs, images, js, streams) ==
    IF js = << >> THEN [files |-> fs, images |-> images]
    ELSE LET job == Head(js)
             saved == SaveResponse(fs, suffix(job.index, job.angle), Head(streams))
             after == AfterJob(saved.files, images, << >>, job, saved.file_path, "none")
         IN  EarlierLoop(saved.files, after.images, Tail(js), Tail(streams))

EarlierRun(n, streams) ==
    LET run == EarlierLoop(EmptyStorage, << >>, jobs(n), streams)
    IN  Render(run.images, << >>, run.files).files

EarlierStreams ==
    [k \in 1..6 |->
        IF k = 1 THEN [chunks |-> << << InlinePart("image/png", ImageB) >> >>, raises |-> FALSE]
        ELSE IF k = 4 THEN [chunks |-> << << InlinePart("image/webp", ImageA) >> >>, raises |-> FALSE]
        ELSE [chunks |-> << >>, raises |-> FALSE]]

InitialStorages == {EmptyStorage, EarlierRun(6, EarlierStreams)}

----------------------------------------------------------------------------
(* The session *)

Uploads == {"ok", "unreadable"}
BackUploads == {"none", "ok", "unreadable"}

NoRequest == [images |-> << >>, text |-> << >>]

\* no stream is being read
NoReader == [state |-> "idle"]

Init ==
    /\ api_key_set \in BOOLEAN
    /\ client_cached = FALSE
    /\ files \in InitialStorages
    /\ pc = "idle"
    /\ num_angles = 8
    /\ prompt_strategy = "comprehensive"
    /\ uploaded_file = "ok"
    /\ back_garment_file = "none"
    /\ back_garment_bytes = None
    /\ i = 0
    /\ request = NoRequest
    /\ calls = << >>
    /\ in_flight = 0
    /\ since_call_end = 0
    /\ received = << >>
    /\ alt_used = 0
    /\ generated_images = << >>
    /\ messages = << >>
    /\ ui = NoUi
    /\ reader = NoReader
    /\ images_length = 0
    /\ currentIndex = 0
    /\ isPlaying = FALSE
    /\ playInterval = 0
    /\ timers = {}
    /\ mainImage = 0
    /\ angleSlider = 0

\* get_genai_client without the test of the key
get_genai_client_unchecked == TRUE

\* get_genai_client, lines 33-39: TRUE when it returns a client, FALSE when
\* it reports the missing key and stops the script
get_genai_client_returns == client_cached \/ api_key_set

\* The generate button is clicked (it is enabled only with a main upload):
\* lines 656-671 and, inside the run, lines 156-247.
ClickGenerate(n, strategy, main, back) ==
    /\ pc = "idle"
    /\ num_angles' = n
    /\ prompt_strategy' = strategy
    /\ uploaded_file' = main
    /\ back_garment_file' = back
    /\ i' = 0
    /\ request' = NoRequest
    /\ calls' = << >>
    /\ in_flight' = 0
    /\ since_call_end' = 0
    /\ received' = << >>
    /\ alt_used' = 0
    /\ generated_images' = << >>
    /\ IF ~get_genai_client_returns
       THEN \* st.error, st.stop(): the script run ends here
            /\ pc' = "stopped"
            /\ ui' = [NoUi EXCEPT !.notice = "key_error"]
            /\ messages' = << >>
            /\ back_garment_bytes' = None
            /\ UNCHANGED client_cached
       ELSE /\ client_cached' = TRUE
            /\ ui' = NoUi
            /\ IF main = "unreadable" \/ back = "unreadable"
               THEN \* Image.open raises: except branch of line 314
                    /\ pc' = "returned"
                    /\ messages' = << [angle_no |-> 0, text |-> "Error"] >>
                    /\ back_garment_bytes' = None
               ELSE /\ pc' = "loop"
                    /\ messages' = << >>
                    /\ back_garment_bytes' = IF back = "none" THEN None ELSE BackJpeg
    /\ UNCHANGED <<api_key_set, files, reader, viewer_vars>>

\* The loop body up to the external call: lines 249-277 and 61-130.
StartCall ==
    /\ pc = "loop"
    /\ i < Len(jobs(num_angles))
    /\ LET job == jobs(num_angles)[i + 1]
           req == BuildRequest(MainJpeg, angle_prompt(prompt_strategy, job),
                               garment_ref(job, back_garment_bytes))
       IN  /\ request' = req
           /\ calls' = Append(calls, [index |-> job.index, angle |-> job.angle,
                                      description |-> job.description,
                                      n_images |-> Len(req.images),
                                      waited |-> since_call_end])
    /\ in_flight' = in_flight + 1
    /\ pc' = "calling"
    /\ UNCHANGED <<api_key_set, client_cached, files, num_angles, prompt_strategy, uploaded_file,
                   back_garment_file, back_garment_bytes, i, since_call_end, received,
                   alt_used, generated_images, messages, ui, reader, viewer_vars>>

\* The external call ends with the given stream: lines 129-143, 279-307.
CallReturns(stream) ==
    /\ pc = "calling"
    /\ LET job == jobs(num_angles)[i + 1]
           saved == SaveResponse(files, suffix(job.index, job.angle), stream)
           after == AfterJob(saved.files, generated_images, messages, job,
                             saved.file_path, back_garment_file)
       IN  /\ files' = saved.files
           /\ generated_images' = after.images
           /\ messages' = after.messages
           /\ received' = Append(received, FirstInline(stream))
           /\ since_call_end' = delay_after(saved.file_path)
           /\ pc' = after_iteration(i, Len(jobs(num_angles)), saved.file_path)
    /\ in_flight' = in_flight - 1
    /\ i' = i + 1
    /\ UNCHANGED <<api_key_set, client_cached, num_angles, prompt_strategy, uploaded_file,
                   back_garment_file, back_garment_bytes, request, calls, ui, reader,
                   viewer_vars>>

DefaultReturn ==
    /\ \E stream \in DefaultStreams : CallReturns(stream)
    /\ UNCHANGED alt_used

AltReturn ==
    /\ alt_used < MaxAlt
    /\ \E stream \in AltStreams : CallReturns(stream)
    /\ alt_used' = alt_used + 1

EmptyReturn ==
    /\ \E stream \in EmptyStreams : CallReturns(stream)
    /\ UNCHANGED alt_used

RaisingReturn ==
    /\ \E stream \in RaisingStreams : CallReturns(stream)
    /\ UNCHANGED alt_used

\* The run returned its results: the handler renders them, lines 673-775.
RenderResults ==
    /\ pc = "returned"
    /\ LET r == Render(generated_images, messages, files)
       IN  /\ ui' = r.ui
           /\ files' = r.files
    /\ pc' = "done"
    /\ UNCHANGED <<api_key_set, client_cached, num_angles, prompt_strategy, uploaded_file,
                   back_garment_file, back_garment_bytes, i, request, calls, in_flight,
                   since_call_end, received, alt_used, generated_images, messages, reader,
                   viewer_vars>>

\* The clean-up button is clicked: lines 778-788. The script reruns without
\* the generate branch, so the results of the run are no longer shown.
CleanUp ==
    /\ pc \in {"idle", "done", "stopped", "cleaned"}
    /\ LET names == files_to_remove(files)
       IN  /\ files' = remove_all(files, names)
           /\ ui' = [NoUi EXCEPT !.notice = "cleaned", !.removed_count = Cardinality(names)]
    /\ pc' = IF pc = "idle" THEN "idle" ELSE "cleaned"
    /\ UNCHANGED <<api_key_set, client_cached, num_angles, prompt_strategy, uploaded_file,
                   back_garment_file, back_garment_bytes, i, request, calls, in_flight,
                   since_call_end, received, alt_used, generated_images, messages, reader,
                   viewer_vars>>

\* the generate button with the strategy selectbox at one of the given values
Generate(strategies) ==
    \E n \in AngleCounts, strategy \in strategies, main \in Uploads, back \in BackUploads :
        ClickGenerate(n, strategy, main, back)

\* the strategy selectbox left at its default (index=0)
DefaultStrategy == {"comprehensive"}

\* One session with the default strategy, every stream the model can answer
\* with (at most MaxAlt of them non-default) and the clean-up button.
Next ==
    \/ Generate(DefaultStrategy)
    \/ StartCall
    \/ DefaultReturn
    \/ AltReturn
    \/ EmptyReturn
    \/ RaisingReturn
    \/ RenderResults
    \/ CleanUp

Spec == Init /\ [][Next]_vars

\* One session on an empty storage with every prompt strategy, the model
\* answering each call with the default image or with none.
InitRequests == Init /\ files = EmptyStorage

NextRequests ==
    \/ Generate(Strategies)
    \/ StartCall
    \/ DefaultReturn
    \/ EmptyReturn
    \/ RaisingReturn
    \/ RenderResults

SpecRequests == InitRequests /\ [][NextRequests]_vars

\* the external call of lines 129-143 ends: it returns a stream or raises
CallEnds == DefaultReturn \/ EmptyReturn \/ RaisingReturn

\* The same session with the script running on: between two calls nothing
\* but the loop's own code (lines 249-277, 289-307) stands before the next
\* call, and a returned run is rendered (lines 673-775).
SpecLive ==
    /\ InitRequests
    /\ [][NextRequests]_vars
    /\ WF_vars(StartCall)
    /\ WF_vars(RenderResults)

-----------------------------------------------------------------------------
(* generate_angle_image reading one response stream, step by step *)

MaxChunks == 2

\* the chunks a stream may yield: their parts in order; a chunk without
\* candidates or without parts is the empty one
ChunkKinds ==
    { << >>,
      << TextPart >>,
      << TextPart, TextPart >>,
      << TextPart, InlinePart("image/png", ImageA) >>,
      << InlinePart("image/jpeg", ImageB), InlinePart("image/png", ImageA) >>,
      << InlinePart("image/x-unknown", ImageB) >> }

\* the chunk sequences of at most MaxChunks chunks
ChunkSeqs == UNION {[1..n -> ChunkKinds] : n \in 0..MaxChunks}

\* a stream yields its chunks and then ends, or raises in place of ending
Streams == [chunks : ChunkSeqs, raises : BOOLEAN]

\* the jobs whose stream is read: the first of an 8-angle run and the
\* fourth of a 6-angle run
StreamJobs == {jobs(8)[1], jobs(6)[4]}

\* line 129-130: the call is made for a job and the stream is opened
BeginStream(job, stream) ==
    /\ pc = "idle"
    /\ reader.state = "idle"
    /\ reader' = [state |-> "reading", stream |-> stream,
                  sfx |-> suffix(job.index, job.angle), before |-> files,
                  chunk_no |-> 0, part_no |-> 0, reads |-> 0, writes |-> 0,
                  raised |-> FALSE, result |-> None]
    /\ UNCHANGED <<session_vars, viewer_vars>>

\* the parts the inner loop of line 132 visits in the chunk being read
CurrentParts ==
    IF reader.chunk_no = 0 THEN << >> ELSE reader.stream.chunks[reader.chunk_no]

\* line 130: the outer loop takes the next chunk of the stream
NextChunk ==
    /\ reader.state = "reading"
    /\ reader.part_no = Len(CurrentParts)
    /\ reader.chunk_no < Len(reader.stream.chunks)
    /\ reader' = [reader EXCEPT !.chunk_no = @ + 1, !.part_no = 0]
    /\ UNCHANGED <<session_vars, viewer_vars>>

\* the body of the inner loop writing the file and reading on
read_part_keeps_reading(rd, fs, part) ==
    IF part.inline_data # None
    THEN LET file_path == angle_file_path(rd.sfx, part.inline_data.mime_type)
         IN  [reader |-> [rd EXCEPT !.part_no = @ + 1, !.reads = @ + 1, !.writes = @ + 1,
                                    !.result = file_path],
              files |-> write(fs, file_path, part.inline_data.data)]
    ELSE [reader |-> [rd EXCEPT !.part_no = @ + 1, !.reads = @ + 1], files |-> fs]

\* lines 133-140, the body of the inner loop for one part: a part with
\* inline data is saved and the function returns its path
read_part(rd, fs, part) ==
    IF part.inline_data # None
    THEN LET file_path == angle_file_path(rd.sfx, part.inline_data.mime_type)
         IN  [reader |-> [rd EXCEPT !.part_no = @ + 1, !.reads = @ + 1, !.writes = @ + 1,
                                    !.result = file_path, !.state = "returned"],
              files |-> write(fs, file_path, part.inline_data.data)]
    ELSE [reader |-> [rd EXCEPT !.part_no = @ + 1, !.reads = @ + 1], files |-> fs]

\* line 132: the inner loop takes the next part of the chunk
ReadPart ==
    /\ reader.state = "reading"
    /\ reader.part_no < Len(CurrentParts)
    /\ LET r == read_part(reader, files, CurrentParts[reader.part_no + 1])
       IN  /\ reader' = r.reader
           /\ files' = r.files
    /\ UNCHANGED <<api_key_set, client_cached, pc, num_angles, prompt_strategy, uploaded_file,
                   back_garment_file, back_garment_bytes, i, request, calls, in_flight,
                   since_call_end, received, alt_used, generated_images, messages, ui,
                   viewer_vars>>

\* line 140: the stream is exhausted, the function returns None
StreamEnds ==
    /\ reader.state = "reading"
    /\ reader.part_no = Len(CurrentParts)
    /\ reader.chunk_no = Len(reader.stream.chunks)
    /\ ~reader.stream.raises
    /\ reader' = [reader EXCEPT !.state = "returned"]
    /\ UNCHANGED <<session_vars, viewer_vars>>

\* lines 141-143: the stream raises, the error is shown and the function
\* returns None
StreamRaises ==
    /\ reader.state = "reading"
    /\ reader.part_no = Len(CurrentParts)
    /\ reader.chunk_no = Len(reader.stream.chunks)
    /\ reader.stream.raises
    /\ reader' = [reader EXCEPT !.state = "returned", !.raised = TRUE]
    /\ UNCHANGED <<session_vars, viewer_vars>>

NextStream ==
    \/ \E job \in StreamJobs, stream \in Streams : BeginStream(job, stream)
    \/ NextChunk
    \/ ReadPart
    \/ StreamEnds
    \/ StreamRaises

\* One job's response stream read on a storage that may hold earlier files.
SpecStream == Init /\ [][NextStream]_vars

-----------------------------------------------------------------------------
(* The script of the viewer document, lines 478-544 *)

MaxImages == 3
MaxTimers == 3

\* function updateImage(index), lines 491-503, called while currentIndex is
\* cur: what it leaves in currentIndex, mainImage.src and angleSlider.value
updateImage(index, cur, shown, slider) ==
    IF index < 0 \/ index >= images_length
    THEN [currentIndex |-> cur, mainImage |-> shown, angleSlider |-> slider]
    ELSE [currentIndex |-> index, mainImage |-> index, angleSlider |-> index]

\* The document is loaded with n embedded images: the markup of lines
\* 460-467 shows the first image with the slider at 0, and the script runs
\* up to its last line, updateImage(0).
LoadViewer(n) ==
    /\ pc = "idle"
    /\ reader.state = "idle"
    /\ images_length = 0
    /\ images_length' = n
    /\ isPlaying' = FALSE
    /\ playInterval' = 0
    /\ timers' = {}
    /\ currentIndex' = 0
    /\ mainImage' = 0
    /\ angleSlider' = 0
    /\ UNCHANGED <<session_vars, reader>>

\* lines 505-507: the slider is moved to v, a value of its range 0..max
SliderInput(v) ==
    /\ images_length > 0
    /\ v \in 0..(images_length - 1)
    /\ LET u == updateImage(v, currentIndex, mainImage, v)
       IN  /\ currentIndex' = u.currentIndex
           /\ mainImage' = u.mainImage
           /\ angleSlider' = u.angleSlider
    /\ UNCHANGED <<session_vars, reader, images_length, isPlaying, playInterval, timers>>

\* lines 509-513: the thumbnail of the image at index is clicked
ThumbnailClick(index) ==
    /\ images_length > 0
    /\ index \in 0..(images_length - 1)
    /\ LET u == updateImage(index, currentIndex, mainImage, angleSlider)
       IN  /\ currentIndex' = u.currentIndex
           /\ mainImage' = u.mainImage
           /\ angleSlider' = u.angleSlider
    /\ UNCHANGED <<session_vars, reader, images_length, isPlaying, playInterval, timers>>

\* a play button that sets an interval whenever it is clicked
PlayClick_always_starts ==
    /\ images_length > 0
    /\ playInterval < MaxTimers
    /\ playInterval' = playInterval + 1
    /\ timers' = timers \cup {playInterval + 1}
    /\ isPlaying' = TRUE
    /\ UNCHANGED <<session_vars, reader, images_length, currentIndex, mainImage, angleSlider>>

\* lines 515-530: the play button is clicked. setInterval returns an id it
\* never returned before; playInterval holds the last one, so the next is
\* playInterval + 1.
PlayClick ==
    /\ images_length > 0
    /\ IF isPlaying
       THEN /\ timers' = timers \ {playInterval}
            /\ isPlaying' = FALSE
            /\ UNCHANGED playInterval
       ELSE /\ playInterval < MaxTimers
            /\ playInterval' = playInterval + 1
            /\ timers' = timers \cup {playInterval + 1}
            /\ isPlaying' = TRUE
    /\ UNCHANGED <<session_vars, reader, images_length, currentIndex, mainImage, angleSlider>>

\* lines 532-540: the reset button is clicked
ResetClick ==
    /\ images_length > 0
    /\ IF isPlaying
       THEN /\ timers' = timers \ {playInterval}
            /\ isPlaying' = FALSE
       ELSE UNCHANGED <<timers, isPlaying>>
    /\ LET u == updateImage(0, currentIndex, mainImage, angleSlider)
       IN  /\ currentIndex' = u.currentIndex
           /\ mainImage' = u.mainImage
           /\ angleSlider' = u.angleSlider
    /\ UNCHANGED <<session_vars, reader, images_length, playInterval>>

\* lines 522-525: an interval that is set fires after its 500 ms
TimerTick ==
    /\ images_length > 0
    /\ \E t \in timers :
          LET next == (currentIndex + 1) % images_length
              u == updateImage(next, next, mainImage, angleSlider)
          IN  /\ currentIndex' = u.currentIndex
              /\ mainImage' = u.mainImage
              /\ angleSlider' = u.angleSlider
    /\ UNCHANGED <<session_vars, reader, images_length, isPlaying, playInterval, timers>>

NextViewer ==
    \/ \E n \in 1..MaxImages : LoadViewer(n)
    \/ \E v \in 0..(MaxImages - 1) : SliderInput(v)
    \/ \E index \in 0..(MaxImages - 1) : ThumbnailClick(index)
    \/ PlayClick
    \/ ResetClick
    \/ TimerTick

\* One viewer document and the events of its page.
SpecViewer == Init /\ [][NextViewer]_vars

----------------------------------------------------------------------------
(* Properties *)

\* the position of a result in the angle set, from its angle
IndexOf(img) == (img.angle * num_angles) \div 360

\* the run went through its loop and returned
LoopReturned == pc \in {"returned", "done"} /\ uploaded_file = "ok"
                /\ back_garment_file # "unreadable"

\* C1: for every angle count, the job at index n/2 (the 180-degree angle) is
\* the one whose description is "back view": every call of a run is the back
\* view call exactly when its index is half the angle count.
C1_BackViewAtHalf ==
    \A k \in DOMAIN calls :
        (calls[k].index = num_angles \div 2) <=> IsBackView(calls[k].description)

\* C2: the result sequence of a run is strictly increasing by angle index, so
\* it holds each index at most once and is no longer than the angle count.
C2_ResultsStrictlyIncreasing ==
    /\ \A k \in 1..(Len(generated_images) - 1) :
          IndexOf(generated_images[k]) < IndexOf(generated_images[k + 1])
    /\ \A k \in DOMAIN generated_images :
          IndexOf(generated_images[k]) \in 0..(num_angles - 1)
    /\ Len(generated_images) <= num_angles

C2_Witness ==
    /\ pc = "returned"
    /\ Len(generated_images) >= 2
    /\ Len(generated_images) < Len(calls)
    /\ received[1] = None

\* the prompt carries the dual-image composition directive
HasDirective(text) == Contains(text, DualImageDirective)

\* C3: the request of a job carries two image attachments and the dual-image
\* directive exactly when a back reference was supplied and the description
\* of the job contains "back view"; every other request carries exactly one
\* image attachment and no directive, whatever the prompt strategy.
C3_BackReferenceOnlyForBackView ==
    pc = "calling" =>
        LET job == jobs(num_angles)[i + 1]
            dual == back_garment_file = "ok" /\ IsBackView(job.description)
        IN  /\ dual => Len(request.images) = 2 /\ HasDirective(request.text)
                       /\ request.images[2].data = BackJpeg
            /\ ~dual => Len(request.images) = 1 /\ ~HasDirective(request.text)
            /\ request.images[1].data = MainJpeg

C3_Witness ==
    /\ pc = "calling"
    /\ prompt_strategy = "technical"
    /\ Len(request.images) = 2
    /\ HasDirective(request.text)

\* C4: with a credential and readable uploads, a run that returned issued
\* exactly one external call for each index 0..n-1, in order, whatever the
\* calls answered; while it runs no index is called twice.
C4_OneCallPerAngle ==
    /\ \A k \in DOMAIN calls : calls[k].index = k - 1
    /\ LoopReturned => Len(calls) = num_angles

C4_Witness ==
    /\ LoopReturned
    /\ Len(calls) = num_angles
    /\ received[1] = None
    /\ received[2] = None
    /\ Len(generated_images) >= 1

\* C5: after the clean-up no angle image file written by an earlier run,
\* whatever its extension, and no 360_viewer.html remains in local storage.
C5_CleanUpRemovesAllGenerated ==
    ui.notice = "cleaned" =>
        \A f \in DOMAIN files : f.prefix # "angle_" /\ f # html_file

\* the results of the run without their files
WithoutResultFiles ==
    remove_all(files, {generated_images[k].path : k \in DOMAIN generated_images})

\* C6: when zero angles succeed the viewer assembly yields no document (for
\* an empty result list, and when no file of the results exists), and the
\* handler shows the failure notice: it renders no viewer, writes no
\* 360_viewer.html and offers no download.
C6_NoViewerWithoutResults ==
    /\ [](/\ create_360_viewer_html(<< >>, files) = None
          /\ create_360_viewer_html(generated_images, WithoutResultFiles) = None)
    /\ [][(pc = "returned" /\ generated_images = << >>) =>
            /\ ui'.notice = "failure"
            /\ ui'.viewer = None
            /\ ui'.zip = << >>
            /\ ~ui'.downloads
            /\ files' = files]_vars

C6_Witness ==
    /\ pc = "done"
    /\ generated_images = << >>
    /\ Len(calls) = num_angles
    /\ ui.notice = "failure"

\* C7: without GEMINI_API_KEY a run stops in get_genai_client before any job:
\* no external call is issued, no file is written, no result and no viewer
\* is produced.
C7_MissingKeyStopsRun ==
    /\ [](~api_key_set =>
            /\ pc \in {"idle", "stopped", "cleaned"}
            /\ calls = << >>
            /\ in_flight = 0
            /\ generated_images = << >>
            /\ ui.viewer = None
            /\ ui.notice \in {"none", "key_error", "cleaned"})
    /\ [][~api_key_set => DOMAIN files' \subseteq DOMAIN files]_vars

C7_Witness ==
    pc = "stopped" /\ ~api_key_set /\ ui.notice = "key_error" /\ files # EmptyStorage

\* C8: the call of a job starts only after the call of the job before it
\* ended, at most one call is in flight, and every call after the first
\* starts at least the fixed delay after the call before it ended, also
\* when that call failed.
C8_OneCallAtATimeWithDelay ==
    /\ in_flight <= 1
    /\ Len(calls) = Len(received) + in_flight
    /\ \A k \in 2..Len(calls) : calls[k].waited >= SleepSeconds

C8_Witness ==
    /\ pc = "calling"
    /\ Len(calls) = 3
    /\ received[1] = None
    /\ received[2] # None

\* C9: a run with angle count n builds exactly n jobs, with indices 0..n-1,
\* the job at index i at i*360/n degrees; no two jobs share index or angle.
C9_EvenlySpacedJobs ==
    /\ Len(calls) <= num_angles
    /\ \A k \in DOMAIN calls :
          /\ calls[k].index = k - 1
          /\ calls[k].angle * num_angles = (k - 1) * 360
    /\ \A k, j \in DOMAIN calls :
          k # j => calls[k].index # calls[j].index /\ calls[k].angle # calls[j].angle
    /\ LoopReturned => Len(calls) = num_angles /\ Len(jobs(num_angles)) = num_angles

C9_Witness == pc = "returned" /\ num_angles = 6 /\ Len(calls) = 6 /\ calls[6].angle = 300

\* C10: the bytes the viewer embeds for a result, base64-decoded, are the
\* inline bytes the external call returned for that angle; the results of a
\* run are stored under pairwise different file names.
C10_ViewerBytesRoundTrip ==
    /\ \A k, j \in DOMAIN generated_images :
          k # j => generated_images[k].path # generated_images[j].path
    /\ (pc = "done" /\ ui.viewer # None) =>
          /\ Len(ui.viewer.images) = Len(generated_images)
          /\ \A k \in DOMAIN generated_images :
                b64decode(ui.viewer.images[k].data.base64)
                    = received[IndexOf(generated_images[k]) + 1].data

C10_Witness ==
    /\ pc = "done"
    /\ ui.viewer # None
    /\ Len(ui.viewer.images) >= 2
    /\ \E k, j \in DOMAIN ui.viewer.images :
          ui.viewer.images[k].data.base64 # ui.viewer.images[j].data.base64

\* the message says the angle was generated
SaysSuccess(msg) ==
    msg.text \in {"Generated successfully", "Generated successfully with garment reference"}

\* the log has one message per angle index, in order, each saying success
\* exactly when its index is among the results
OneMessagePerAngle ==
    /\ Len(messages) = num_angles
    /\ \A k \in DOMAIN messages :
          /\ messages[k].angle_no = k
          /\ SaysSuccess(messages[k])
                <=> \E r \in DOMAIN generated_images : IndexOf(generated_images[r]) = k - 1

\* the count of the success notice is the number of results of the run
CountIsSuccesses ==
    (pc = "done" /\ ui.notice = "success") =>
        /\ ui.count = Len(generated_images)
        /\ ui.count = Cardinality({k \in DOMAIN messages : SaysSuccess(messages[k])})
        /\ ui.log = messages

\* C11 as stated: whenever a run returned, its log holds exactly one message
\* per angle index 0..n-1, success exactly for the indices in the result
\* sequence, and the summary count is the number of successes.
C11_LogPerAngleAnyRun ==
    pc \in {"returned", "done"} => OneMessagePerAngle /\ CountIsSuccesses

\* C11 (amended): the same for every run whose uploads could be opened; a
\* run whose upload cannot be opened returns a log of one error message.
C11_LogPerAngle ==
    /\ LoopReturned => OneMessagePerAngle /\ CountIsSuccesses
    /\ (pc \in {"returned", "done"} /\ ~LoopReturned) =>
          /\ generated_images = << >>
          /\ Len(messages) = 1 /\ ~SaysSuccess(messages[1])

C11_Witness ==
    /\ pc = "done"
    /\ LoopReturned
    /\ ui.notice = "success"
    /\ ui.count >= 2
    /\ ui.count < num_angles
    /\ ~SaysSuccess(messages[1])

\* C12: the MIME type each data URI of the viewer declares is the MIME type
\* of the inline image data the executor received and stored for that result.
C12_ViewerMimeIsReceivedMime ==
    (pc = "done" /\ ui.viewer # None) =>
        \A k \in DOMAIN ui.viewer.images :
            ui.viewer.images[k].data.mime_type
                = received[IndexOf(generated_images[k]) + 1].mime_type

\* C15: when a back reference is supplied, a run that returned issued
\* exactly one request carrying the back reference as a second attachment.
C15_BackReferenceUsedOnce ==
    (LoopReturned /\ back_garment_file = "ok") =>
        Cardinality({k \in DOMAIN calls : calls[k].n_images = 2}) = 1

\* the angle files in storage that are no result of the run
NotOfThisRun ==
    {f \in DOMAIN files : f.prefix = "angle_"
                          /\ \A k \in DOMAIN generated_images : generated_images[k].path # f}

\* C17: a generation run deletes no file (only the clean-up does), and the
\* viewer document and the ZIP archive of a run hold exactly the files of its
\* own results, with the bytes its own calls returned; angle files that
\* earlier runs left in storage are never included.
C17_RunKeepsFilesAndShowsOwn ==
    /\ [][ui'.notice # "cleaned" => DOMAIN files \subseteq DOMAIN files']_vars
    /\ []((pc = "done" /\ ui.viewer # None) =>
            /\ Len(ui.zip) = Len(generated_images)
            /\ Len(ui.viewer.images) = Len(generated_images)
            /\ \A k \in DOMAIN generated_images :
                  LET mine == received[IndexOf(generated_images[k]) + 1]
                  IN  /\ ui.zip[k].name = generated_images[k].path
                      /\ ui.zip[k].data = mine.data
                      /\ ui.viewer.images[k].angle = generated_images[k].angle
                      /\ ui.viewer.images[k].data.base64 = b64encode(mine.data)
            /\ \A k \in DOMAIN ui.zip : ui.zip[k].name \notin NotOfThisRun)

\* a run rendered its results in a storage holding angle files of an earlier
\* run, one of them under a name the run wrote again
C17_Witness ==
    /\ pc = "done"
    /\ ui.viewer # None
    /\ Len(ui.zip) >= 2
    /\ NotOfThisRun # {}
    /\ num_angles # 6
    /\ files[ui.zip[1].name] = ImageA

\* C14 as stated, for every run: if every external call eventually ends, a
\* run that was started eventually returns its results with all n jobs started.
C14_AnyRunReturns ==
    WF_vars(CallEnds) =>
        ((pc \in {"loop", "calling", "returned", "stopped"})
            ~> (pc = "returned" /\ Len(calls) = num_angles))

\* C14: if every external call eventually returns or raises, a run that got
\* its client and opened its uploads eventually returns its results after
\* having started all n jobs; a job is started as soon as the job before it
\* has ended (no call is in flight between two jobs and the next call is
\* enabled), and job k is started only after the k-1 jobs before it ended.
C14_RunReturns ==
    /\ WF_vars(CallEnds) =>
          ((pc = "loop") ~> (pc = "returned" /\ Len(calls) = num_angles /\ i = num_angles))
    /\ [](pc = "loop" => (in_flight = 0 /\ ENABLED StartCall))
    /\ [](pc \in {"loop", "calling"} => Len(calls) = i + in_flight)

\* a run returned after eight calls of which some failed
C14_Witness ==
    /\ pc = "returned"
    /\ num_angles = 8
    /\ Len(calls) = 8
    /\ Len(generated_images) < 8
    /\ Len(generated_images) > 0

\* the parts of the stream being read, in the order of the stream
StreamParts == Flatten(reader.stream.chunks)

\* C13: a job whose stream yields a part with inline image data (before the
\* stream raises) writes exactly one file, holding the data of the first such
\* part under the name keyed by the job's index and angle, reads no part
\* after it and returns that file; a job whose stream ends or raises without
\* inline data writes no file and returns None. Before it returns, the job
\* has written nothing.
C13_OneFileAtFirstInlinePart ==
    /\ reader.state = "reading" => (reader.writes = 0 /\ files = reader.before)
    /\ reader.state = "returned" =>
          /\ [file_path |-> reader.result, files |-> files]
                = SaveResponse(reader.before, reader.sfx, reader.stream)
          /\ IF \E k \in DOMAIN StreamParts : StreamParts[k].inline_data # None
             THEN \E k \in DOMAIN StreamParts :
                     /\ StreamParts[k].inline_data # None
                     /\ \A j \in 1..(k - 1) : StreamParts[j].inline_data = None
                     /\ reader.reads = k
                     /\ reader.writes = 1
                     /\ ~reader.raised
                     /\ reader.result # None
                     /\ reader.result.suffix = reader.sfx
                     /\ DOMAIN files = DOMAIN reader.before \cup {reader.result}
                     /\ files[reader.result] = StreamParts[k].inline_data.data
                     /\ \A f \in DOMAIN reader.before :
                           f # reader.result => files[f] = reader.before[f]
             ELSE /\ reader.writes = 0
                  /\ reader.result = None
                  /\ files = reader.before
                  /\ reader.reads = Len(StreamParts)
                  /\ reader.raised = reader.stream.raises

\* a job returned the first inline part of a stream that held a text part
\* before it and another inline part, and an error, after it; the file it
\* wrote replaced one of an earlier run
C13_Witness ==
    /\ reader.state = "returned"
    /\ reader.result # None
    /\ reader.reads > 1
    /\ reader.stream.raises
    /\ \E j \in DOMAIN StreamParts : j > reader.reads /\ StreamParts[j].inline_data # None
    /\ reader.result \in DOMAIN reader.before
    /\ files # reader.before

\* C16: in a loaded viewer, after any sequence of slider, thumbnail, play,
\* reset and timer events, the displayed index (and the script's index and
\* the slider with it) is within 0..images.length-1; an interval is set if
\* and only if isPlaying is true, it is the one playInterval names and there
\* is never a second one; and a reset click leaves the viewer at index 0
\* with playback stopped and no interval set.
C16_ViewerStaysConsistent ==
    /\ [](images_length > 0 =>
            /\ mainImage \in 0..(images_length - 1)
            /\ currentIndex = mainImage
            /\ angleSlider = mainImage
            /\ (timers # {}) <=> isPlaying
            /\ Cardinality(timers) <= 1
            /\ isPlaying => timers = {playInterval})
    /\ [][ResetClick => (mainImage' = 0 /\ currentIndex' = 0 /\ ~isPlaying' /\ timers' = {})]_vars

\* the viewer, started again after a stop, advanced to its last image
C16_Witness ==
    /\ images_length = MaxImages
    /\ isPlaying
    /\ playInterval >= 2
    /\ timers = {playInterval}
    /\ mainImage = images_length - 1

====
